---- MODULE Spec2Model ----
(***************************************************************************)
(* Reaction ledger of src/Reaction_Bot.py: the three sqlite tables (users, *)
(* messages, reaction_events), the ingestion paths that write them (the    *)
(* live handlers on_reaction_add / on_reaction_remove and the startup      *)
(* backfill run from on_ready), and the six slash-command aggregations     *)
(* that read them.                                                         *)
(*                                                                         *)
(* Scheduling: the bot runs on one asyncio loop.  update_user_in_db,       *)
(* update_message_in_db and record_reaction_event contain no suspending    *)
(* await, so one call of a live handler runs to its end (or to the         *)
(* exception that leaves it) without interleaving; backfill suspends at    *)
(* channel.history() and reaction.users(), so it is one step per fetch.    *)
(* Every sqlite connection commits on its own (lines 93, 104, 132): what a *)
(* call wrote before it raised stays written.                              *)
(*                                                                         *)
(* Not modelled: the timestamp column, message text, embed formatting.     *)
(***************************************************************************)
EXTENDS Integers, Sequences, FiniteSets, TLC

VARIABLES
    tables,            \* TRUE once setup_database has created the tables
    users,             \* table users: user_id -> [username, discriminator]
    messages,          \* table messages: message_id -> [channel_id, guild_id, author_id]
    reaction_events,   \* table reaction_events, in id order (id = position)
    reactions,         \* platform: the <<user, message, emoji>> currently set
    bf,                \* on_ready / backfill_reactions: where the walk stands
    outcome,           \* how the handler step that ran last ended
    nDispatch          \* gateway dispatches (ready, reactions, slash commands) so far

vars == <<tables, users, messages, reaction_events, reactions, bf, outcome, nDispatch>>
store == <<tables, users, messages, reaction_events>>

(***************************************************************************)
(* Bounds of the model.                                                    *)
(***************************************************************************)
MaxDispatch == 3

(***************************************************************************)
(* Python's None, for an id, a guild or an author that is absent.          *)
(***************************************************************************)
None == 0

(***************************************************************************)
(* The platform, as the gateway presents it (discord objects).             *)
(***************************************************************************)
\* bot.user: the bot's own identity
BotUser == 1
UserIds == {1, 2, 3, 4}

\* discord.User: id, name, discriminator, bot
User(u) ==
    CASE u = 1 -> [id |-> 1, name |-> "reactbot", discriminator |-> "0001", bot |-> TRUE]
      [] u = 2 -> [id |-> 2, name |-> "ann", discriminator |-> "0", bot |-> FALSE]
      [] u = 3 -> [id |-> 3, name |-> "bob", discriminator |-> "0", bot |-> FALSE]
      [] OTHER -> [id |-> 4, name |-> "modbot", discriminator |-> "0004", bot |-> TRUE]

\* bot.guilds, and guild.text_channels of each
Guilds == <<1, 2>>
TextChannels(g) == IF g = 1 THEN <<1, 2>> ELSE <<3>>

\* discord.Message: id, channel.id, guild (None in a direct message), author
\* (None when it could not be determined: the case lines 178 and 196 test)
MessageIds == {1, 2, 3, 4, 5}
Message(m) ==
    CASE m = 1 -> [id |-> 1, channel_id |-> 1, guild |-> 1, author |-> 2]
      [] m = 2 -> [id |-> 2, channel_id |-> 2, guild |-> 1, author |-> 1]
      [] m = 3 -> [id |-> 3, channel_id |-> 3, guild |-> 2, author |-> 3]
      [] m = 4 -> [id |-> 4, channel_id |-> 4, guild |-> None, author |-> 2]
      [] OTHER -> [id |-> 5, channel_id |-> 1, guild |-> 1, author |-> None]

\* channel.history(limit=None, oldest_first=True): the channel's messages
History(c) ==
    CASE c = 1 -> <<1, 5>>
      [] c = 2 -> <<2>>
      [] c = 3 -> <<3>>
      [] OTHER -> <<4>>

\* reaction.emoji: a str (unicode emoji) or a discord.Emoji (name, id)
Fire == [kind |-> "str", value |-> "fire"]
Pog11 == [kind |-> "Emoji", name |-> "pog", id |-> 11]
Pog12 == [kind |-> "Emoji", name |-> "pog", id |-> 12]
Emojis == <<Fire, Pog11, Pog12>>
EmojiSet == {Emojis[i] : i \in 1..Len(Emojis)}

\* the <<user, message, emoji>> the platform's users set and clear in this model
Reactable ==
    {<<2, 1, Fire>>, <<3, 1, Fire>>, <<3, 1, Pog11>>, <<3, 1, Pog12>>, <<4, 1, Fire>>,
     <<1, 1, Fire>>, <<3, 2, Fire>>, <<2, 3, Fire>>, <<3, 4, Fire>>, <<3, 5, Fire>>}

(***************************************************************************)
(* The store as one value, and the result of a call that may raise.        *)
(***************************************************************************)
Db == [tables |-> tables, users |-> users, messages |-> messages, events |-> reaction_events]

Returned(db) == [db |-> db, raised |-> "no"]
Raised(db, exc) == [db |-> db, raised |-> exc]

\* sequencing: F on the store r left, unless r raised, which is then the result
AndThen(r, F(_)) ==
    CHOOSE y \in {IF x.raised # "no" THEN x ELSE F(x.db) : x \in {r}} : TRUE

\* f with key k bound to v (k added to the domain when new)
Put(f, k, v) == [x \in DOMAIN f \cup {k} |-> IF x = k THEN v ELSE f[x]]

(***************************************************************************)
(* update_user_in_db: INSERT OR IGNORE, then UPDATE of username and        *)
(* discriminator, committed.  user.id of None raises AttributeError while  *)
(* the parameters are built; a statement against a table that does not     *)
(* exist raises sqlite3.OperationalError.                                  *)
(***************************************************************************)
InsertOrIgnoreUser(tbl, u) ==
    IF u.id \in DOMAIN tbl THEN tbl
    ELSE Put(tbl, u.id, [username |-> u.name, discriminator |-> u.discriminator])

\* mutant: no UPDATE after the INSERT OR IGNORE; the first name written stays
UpdateUserNever(tbl, u) == tbl

UpdateUser(tbl, u) ==
    [x \in DOMAIN tbl |->
        IF x = u.id THEN [username |-> u.name, discriminator |-> u.discriminator]
        ELSE tbl[x]]

\* lines 85-92: the two statements, for the discord.User u
UpsertedUsers(tbl, u) == UpdateUser(InsertOrIgnoreUser(tbl, u), u)

update_user_in_db(db, uid) ==
    IF uid = None THEN Raised(db, "AttributeError")
    ELSE IF ~db.tables THEN Raised(db, "OperationalError")
    ELSE Returned([db EXCEPT !.users = UpsertedUsers(db.users, User(uid))])

(***************************************************************************)
(* update_message_in_db: INSERT OR IGNORE of (message.id,                  *)
(* message.channel.id, message.guild.id, message.author.id), committed.    *)
(* message.guild.id raises AttributeError in a direct message.             *)
(***************************************************************************)
\* mutant: INSERT OR REPLACE; the last values written stay
InsertOrReplaceMessage(tbl, msg) ==
    Put(tbl, msg.id,
        [channel_id |-> msg.channel_id, guild_id |-> msg.guild, author_id |-> msg.author])

InsertOrIgnoreMessage(tbl, msg) ==
    IF msg.id \in DOMAIN tbl THEN tbl
    ELSE Put(tbl, msg.id,
             [channel_id |-> msg.channel_id, guild_id |-> msg.guild, author_id |-> msg.author])

update_message_in_db(db, m) ==
    IF Message(m).guild = None \/ Message(m).author = None THEN Raised(db, "AttributeError")
    ELSE IF ~db.tables THEN Raised(db, "OperationalError")
    ELSE Returned([db EXCEPT !.messages = InsertOrIgnoreMessage(db.messages, Message(m))])

(***************************************************************************)
(* record_reaction_event: the two user upserts, the message upsert, then   *)
(* the INSERT into reaction_events, each on a connection of its own.       *)
(***************************************************************************)
\* lines 122-123: str(emoji) for a str, emoji.name otherwise; emoji.id for a discord.Emoji
EmojiName(e) == IF e.kind = "str" THEN e.value ELSE e.name
EmojiId(e) == IF e.kind = "Emoji" THEN e.id ELSE None

\* mutant: the guild_id column is left unset, as in the schema before the
\* column was added (lines 313-319)
EventGuildIdUnset(msg) == None

\* line 126: message.guild.id if message.guild else None
EventGuildId(msg) == IF msg.guild # None THEN msg.guild ELSE None

EventRow(reactor, msg, e, event_type) ==
    [reactor_user_id |-> reactor, message_id |-> msg.id, message_author_id |-> msg.author,
     emoji_name |-> EmojiName(e), emoji_id |-> EmojiId(e), event_type |-> event_type,
     guild_id |-> EventGuildId(msg)]

\* mutant: an event equal to the newest row is not inserted again
InsertEventCoalesce(db, row) ==
    IF ~db.tables THEN Raised(db, "OperationalError")
    ELSE IF db.events # <<>> /\ db.events[Len(db.events)] = row THEN Returned(db)
    ELSE Returned([db EXCEPT !.events = Append(db.events, row)])

\* mutant: INSERT OR REPLACE under the id of the newest row
InsertEventReplace(db, row) ==
    IF ~db.tables THEN Raised(db, "OperationalError")
    ELSE IF db.events = <<>> THEN Returned([db EXCEPT !.events = <<row>>])
    ELSE Returned([db EXCEPT !.events = [db.events EXCEPT ![Len(db.events)] = row]])

InsertEvent(db, row) ==
    IF ~db.tables THEN Raised(db, "OperationalError")
    ELSE Returned([db EXCEPT !.events = Append(db.events, row)])

\* mutant: the event is inserted before the rows it refers to are upserted
record_event_first(db, reactor, m, e, event_type) ==
    IF reactor = None \/ Message(m).author = None THEN Raised(db, "AttributeError")
    ELSE
    AndThen(InsertEvent(db, EventRow(reactor, Message(m), e, event_type)), LAMBDA d0 :
    AndThen(update_user_in_db(d0, reactor), LAMBDA d1 :
    AndThen(update_user_in_db(d1, Message(m).author), LAMBDA d2 :
    update_message_in_db(d2, m))))

record_reaction_event(db, reactor, m, e, event_type) ==
    AndThen(update_user_in_db(db, reactor), LAMBDA d1 :
    AndThen(update_user_in_db(d1, Message(m).author), LAMBDA d2 :
    AndThen(update_message_in_db(d2, m), LAMBDA d3 :
    InsertEvent(d3, EventRow(reactor, Message(m), e, event_type)))))

\* the tables after a call
Commit(db) ==
    /\ tables' = db.tables
    /\ users' = db.users
    /\ messages' = db.messages
    /\ reaction_events' = db.events

(***************************************************************************)
(* Live ingestion.  The platform sets (or clears) the reaction and the     *)
(* gateway dispatches the handler, which runs to its end in one step.      *)
(***************************************************************************)
\* mutant: the test "user == bot.user" of lines 172 and 192 is missing
HandleReactionAny(u, m, e, event_type) ==
    IF Message(m).author = None THEN
        /\ outcome' = "skipped"
        /\ UNCHANGED store
    ELSE
        \E r \in {record_reaction_event(Db, u, m, e, event_type)} :
            /\ Commit(r.db)
            /\ outcome' = IF r.raised = "no" THEN "recorded" ELSE r.raised

\* the handler body shared by lines 172-183 and 192-201
HandleReaction(u, m, e, event_type) ==
    IF u = BotUser THEN
        /\ outcome' = "ignored"
        /\ UNCHANGED store
    ELSE IF Message(m).author = None THEN
        /\ outcome' = "skipped"
        /\ UNCHANGED store
    ELSE
        \E r \in {record_reaction_event(Db, u, m, e, event_type)} :
            /\ Commit(r.db)
            /\ outcome' = IF r.raised = "no" THEN "recorded" ELSE r.raised

on_reaction_add(u, m, e) ==
    /\ nDispatch < MaxDispatch
    /\ <<u, m, e>> \notin reactions
    /\ reactions' = reactions \cup {<<u, m, e>>}
    /\ nDispatch' = nDispatch + 1
    /\ HandleReaction(u, m, e, "add")
    /\ UNCHANGED bf

on_reaction_remove(u, m, e) ==
    /\ nDispatch < MaxDispatch
    /\ <<u, m, e>> \in reactions
    /\ reactions' = reactions \ {<<u, m, e>>}
    /\ nDispatch' = nDispatch + 1
    /\ HandleReaction(u, m, e, "remove")
    /\ UNCHANGED bf

(***************************************************************************)
(* on_ready and backfill_reactions.  bf.phase is "idle" before on_ready,   *)
(* "walking" inside the loops and "done" after 'Backfill complete.';       *)
(* bf.gi and bf.ci index bot.guilds and guild.text_channels; bf.fetched    *)
(* says the channel's history has been read; bf.todo holds the <<message,  *)
(* emoji>> of that history still to do; bf.attempted is the set of         *)
(* channels whose try block has been entered in this run and bf.failed     *)
(* the set of those whose except clause has run.  bf.run counts the runs   *)
(* of on_ready and bf.clean says that no except clause has run in any of   *)
(* them: the two are history, read by properties only.                     *)
(***************************************************************************)
Idle == [phase |-> "idle", gi |-> 1, ci |-> 1, fetched |-> FALSE, todo |-> <<>>,
         attempted |-> {}, failed |-> {}, run |-> 0, clean |-> TRUE]

CurrentChannel(b) == TextChannels(Guilds[b.gi])[b.ci]

\* the next iteration of "for channel in guild.text_channels" (line 137), of
\* "for guild in bot.guilds" (line 162), or the end of on_ready
NextChannel(b) ==
    IF b.ci < Len(TextChannels(Guilds[b.gi]))
    THEN [b EXCEPT !.ci = b.ci + 1, !.fetched = FALSE, !.todo = <<>>]
    ELSE IF b.gi < Len(Guilds)
    THEN [b EXCEPT !.gi = b.gi + 1, !.ci = 1, !.fetched = FALSE, !.todo = <<>>]
    ELSE [b EXCEPT !.phase = "done", !.fetched = FALSE, !.todo = <<>>]

\* mutant: no except clause; the exception leaves backfill_reactions and on_ready
ChannelAbort(b) ==
    [b EXCEPT !.phase = "done", !.fetched = FALSE, !.todo = <<>>,
              !.failed = b.failed \cup {CurrentChannel(b)}, !.clean = FALSE]

\* lines 147-148: the except clause of the channel's try block
ChannelError(b) ==
    NextChannel([b EXCEPT !.failed = b.failed \cup {CurrentChannel(b)}, !.clean = FALSE])

\* the ids of S in ascending order, as reaction.users() yields them
RECURSIVE Ascending(_)
Ascending(S) ==
    IF S = {} THEN <<>>
    ELSE LET lo == CHOOSE x \in S : \A y \in S : x <= y
         IN <<lo>> \o Ascending(S \ {lo})

\* message.reactions of one message, as the history fetch returns it
MessageReactions(m) ==
    SelectSeq(Emojis, LAMBDA e : \E u \in UserIds : <<u, m, e>> \in reactions)

RECURSIVE HistoryTodo(_)
HistoryTodo(ms) ==
    IF ms = <<>> THEN <<>>
    ELSE LET es == MessageReactions(Head(ms))
         IN [i \in 1..Len(es) |-> <<Head(ms), es[i]>>] \o HistoryTodo(Tail(ms))

\* mutant: the test of user.bot is missing
RECURSIVE RecordUsersAll(_, _, _, _)
RecordUsersAll(db, us, m, e) ==
    IF us = <<>> THEN Returned(db)
    ELSE AndThen(record_reaction_event(db, Head(us), m, e, "add"),
                 LAMBDA d : RecordUsersAll(d, Tail(us), m, e))

\* mutant: the check announced by the comment of line 144, which the code does
\* not make; a user whose 'add' of this reaction is in the ledger is skipped
RECURSIVE RecordUsersOnce(_, _, _, _)
RecordUsersOnce(db, us, m, e) ==
    IF us = <<>> THEN Returned(db)
    ELSE IF \/ User(Head(us)).bot
            \/ \E i \in 1..Len(db.events) :
                  /\ db.events[i].reactor_user_id = Head(us)
                  /\ db.events[i].message_id = m
                  /\ db.events[i].emoji_name = EmojiName(e)
                  /\ db.events[i].emoji_id = EmojiId(e)
                  /\ db.events[i].event_type = "add"
    THEN RecordUsersOnce(db, Tail(us), m, e)
    ELSE AndThen(record_reaction_event(db, Head(us), m, e, "add"),
                 LAMBDA d : RecordUsersOnce(d, Tail(us), m, e))

\* lines 141-145: the users of one reaction, bots skipped, each recorded as 'add';
\* an exception of record_reaction_event ends the loop
RECURSIVE RecordUsers(_, _, _, _)
RecordUsers(db, us, m, e) ==
    IF us = <<>> THEN Returned(db)
    ELSE IF User(Head(us)).bot THEN RecordUsers(db, Tail(us), m, e)
    ELSE AndThen(record_reaction_event(db, Head(us), m, e, "add"),
                 LAMBDA d : RecordUsers(d, Tail(us), m, e))

\* lines 158-163 up to the first fetch.  READY may be dispatched again after a
\* reconnect; one that arrives while a walk is still running is not modelled.
on_ready ==
    /\ nDispatch < MaxDispatch
    /\ bf.phase \in {"idle", "done"}
    /\ nDispatch' = nDispatch + 1
    /\ tables' = TRUE
    /\ bf' = [Idle EXCEPT !.phase = "walking", !.run = bf.run + 1, !.clean = bf.clean]
    /\ outcome' = "ready"
    /\ UNCHANGED <<users, messages, reaction_events, reactions>>

\* line 139: the history of the current channel arrives, or the fetch raises
BackfillHistory(fails) ==
    /\ bf.phase = "walking"
    /\ ~bf.fetched
    /\ LET b == [bf EXCEPT !.attempted = bf.attempted \cup {CurrentChannel(bf)}]
           todo == HistoryTodo(History(CurrentChannel(bf)))
       IN IF fails THEN
              /\ bf' = ChannelError(b)
              /\ outcome' = "channel_error"
          ELSE IF todo = <<>> THEN
              /\ bf' = NextChannel(b)
              /\ outcome' = "channel_finished"
          ELSE
              /\ bf' = [b EXCEPT !.fetched = TRUE, !.todo = todo]
              /\ outcome' = "fetched"
    /\ UNCHANGED <<store, reactions, nDispatch>>

\* lines 140-145: the users of the next reaction arrive and are recorded, or
\* the fetch raises
BackfillReaction(fails) ==
    /\ bf.phase = "walking"
    /\ bf.fetched
    /\ bf.todo # <<>>
    /\ LET m == Head(bf.todo)[1]
           e == Head(bf.todo)[2]
           us == Ascending({u \in UserIds : <<u, m, e>> \in reactions})
       IN IF fails THEN
              /\ bf' = ChannelError(bf)
              /\ outcome' = "channel_error"
              /\ UNCHANGED store
          ELSE \E r \in {RecordUsers(Db, us, m, e)} :
              /\ Commit(r.db)
              /\ IF r.raised # "no" THEN
                     /\ bf' = ChannelError(bf)
                     /\ outcome' = "channel_error"
                 ELSE IF Tail(bf.todo) = <<>> THEN
                     /\ bf' = NextChannel(bf)
                     /\ outcome' = "channel_finished"
                 ELSE
                     /\ bf' = [bf EXCEPT !.todo = Tail(bf.todo)]
                     /\ outcome' = "backfilled"
    /\ UNCHANGED <<reactions, nDispatch>>

(***************************************************************************)
(* The six aggregations.  Each is the SQL of its slash command on a store  *)
(* db for guild g: the joins and the WHERE clause select rows of           *)
(* reaction_events, GROUP BY partitions them, SUM(CASE ...) nets each      *)
(* group, ORDER BY ... DESC LIMIT 10 keeps the highest ten.  A result is   *)
(* the set of its rows, each carrying its group key.                       *)
(***************************************************************************)
Limit == 10

\* mutant: CASE WHEN event_type = 'add' THEN 1 ELSE 0 END
SignAddOnly(row) == IF row.event_type = "add" THEN 1 ELSE 0

\* CASE WHEN event_type = 'add' THEN 1 ELSE -1 END
Sign(row) == IF row.event_type = "add" THEN 1 ELSE -1

\* SUM(...) over the rows of db.events with ids in I
RECURSIVE NetCount(_, _)
NetCount(db, I) ==
    IF I = {} THEN 0
    ELSE LET i == CHOOSE x \in I : TRUE
         IN Sign(db.events[i]) + NetCount(db, I \ {i})

EventIds(db) == 1..Len(db.events)

\* mutant: HAVING net > 0 before ORDER BY net DESC LIMIT 10
PositiveRows(groups) ==
    {S \in SUBSET {x \in groups : x.net > 0} :
        /\ Cardinality(S) = IF Cardinality({x \in groups : x.net > 0}) < Limit
                            THEN Cardinality({x \in groups : x.net > 0}) ELSE Limit
        /\ \A a \in S, b \in {x \in groups : x.net > 0} \ S : a.net >= b.net}

\* mutant: ORDER BY net (ascending) LIMIT 10
BottomRows(groups) ==
    {S \in SUBSET groups :
        /\ Cardinality(S) = IF Cardinality(groups) < Limit THEN Cardinality(groups) ELSE Limit
        /\ \A a \in S, b \in groups \ S : a.net <= b.net}

\* ORDER BY net DESC LIMIT 10: the sets of rows the query may return (ties
\* at the cut are broken by the engine)
TopRows(groups) ==
    {S \in SUBSET groups :
        /\ Cardinality(S) = IF Cardinality(groups) < Limit THEN Cardinality(groups) ELSE Limit
        /\ \A a \in S, b \in groups \ S : a.net >= b.net}

\* ORDER BY net DESC: the rows of S as fetchall() lists them, greatest net
\* count first; rows of equal net count come in an order the engine chooses
RECURSIVE OrderByNetDesc(_)
OrderByNetDesc(S) ==
    IF S = {} THEN <<>>
    ELSE LET top == CHOOSE a \in S : \A b \in S : a.net >= b.net
         IN <<top>> \o OrderByNetDesc(S \ {top})


\* FROM reaction_events re JOIN users u ON re.message_author_id = u.user_id
\* WHERE re.guild_id = g [AND re.emoji_name = emoji] GROUP BY u.user_id
ReceivedByUser(db, I) ==
    LET J == {i \in I : db.events[i].message_author_id \in DOMAIN db.users}
        keys == {db.events[i].message_author_id : i \in J}
    IN {[key |-> k, username |-> db.users[k].username,
         discriminator |-> db.users[k].discriminator,
         net |-> NetCount(db, {i \in J : db.events[i].message_author_id = k})] : k \in keys}

\* FROM reaction_events WHERE ... GROUP BY emoji_name
ByEmojiName(db, I) ==
    LET keys == {db.events[i].emoji_name : i \in I}
    IN {[key |-> k, net |-> NetCount(db, {i \in I : db.events[i].emoji_name = k})] : k \in keys}

\* FROM reaction_events re JOIN messages m ON re.message_id = m.message_id
\* JOIN users u ON m.author_id = u.user_id WHERE ... GROUP BY m.message_id
ByMessage(db, I) ==
    LET J == {i \in I : /\ db.events[i].message_id \in DOMAIN db.messages
                        /\ db.messages[db.events[i].message_id].author_id \in DOMAIN db.users}
        keys == {db.events[i].message_id : i \in J}
    IN {[key |-> k, username |-> db.users[db.messages[k].author_id].username,
         discriminator |-> db.users[db.messages[k].author_id].discriminator,
         net |-> NetCount(db, {i \in J : db.events[i].message_id = k})] : k \in keys}

\* mutant: the WHERE clause on guild_id is missing
InAnyGuild(db, g) == EventIds(db)

\* WHERE re.guild_id = ?
InGuild(db, g) == {i \in EventIds(db) : db.events[i].guild_id = g}

\* /topusers
topreactionsreceived(db, g) == TopRows(ReceivedByUser(db, InGuild(db, g)))

\* /mytopreactions, for ctx.author
myusedreactions(db, g, author) ==
    TopRows(ByEmojiName(db, {i \in InGuild(db, g) : db.events[i].reactor_user_id = author}))

\* /topemojiusers emoji
top_emoji_users(db, g, emoji) ==
    TopRows(ReceivedByUser(db, {i \in InGuild(db, g) : db.events[i].emoji_name = emoji}))

\* /servertopreactions
server_top_reactions(db, g) == TopRows(ByEmojiName(db, InGuild(db, g)))

\* /usertopreceived, for user or ctx.author
user_top_received(db, g, target_user) ==
    TopRows(ByEmojiName(db, {i \in InGuild(db, g) : db.events[i].message_author_id = target_user}))

\* /topmessages [emoji]: "if emoji:" is false for None and for the empty string
top_messages(db, g, emoji) ==
    IF emoji # "" THEN TopRows(ByMessage(db, {i \in InGuild(db, g) : db.events[i].emoji_name = emoji}))
    ELSE TopRows(ByMessage(db, InGuild(db, g)))

(***************************************************************************)
(* The slash commands: each runs its SELECT and replies; none writes.      *)
(* guild None is a command used outside a server (lines 212-214).          *)
(***************************************************************************)
GuildArgs == {None, 1, 2}
EmojiArgs == {"fire", "pog"}

\* what the command sends: the "server only" notice, the "no data" notice
\* (if not results), or the embed; a SELECT on a missing table raises
Reply(g, results) ==
    IF g = None THEN "server_only"
    ELSE IF ~tables THEN "OperationalError"
    ELSE IF \E r \in results : r = {} THEN "no_data"
    ELSE "embed"

Slash(reply) ==
    /\ nDispatch < MaxDispatch
    /\ nDispatch' = nDispatch + 1
    /\ outcome' = reply
    /\ UNCHANGED <<store, reactions, bf>>

topusers(g) == Slash(Reply(g, topreactionsreceived(Db, g)))

mytopreactions(g, author) == Slash(Reply(g, myusedreactions(Db, g, author)))

topemojiusers(g, emoji) == Slash(Reply(g, top_emoji_users(Db, g, emoji)))

servertopreactions(g) == Slash(Reply(g, server_top_reactions(Db, g)))

usertopreceived(g, target_user) == Slash(Reply(g, user_top_received(Db, g, target_user)))

topmessages(g, emoji) == Slash(Reply(g, top_messages(Db, g, emoji)))

Init ==
    /\ tables = FALSE
    /\ users = << >>
    /\ messages = << >>
    /\ reaction_events = << >>
    /\ reactions = {}
    /\ bf = Idle
    /\ outcome = "none"
    /\ nDispatch = 0

Next ==
    \/ \E t \in Reactable : on_reaction_add(t[1], t[2], t[3])
    \/ \E t \in Reactable : on_reaction_remove(t[1], t[2], t[3])
    \/ on_ready
    \/ \E fails \in BOOLEAN : BackfillHistory(fails)
    \/ \E fails \in BOOLEAN : BackfillReaction(fails)
    \/ \E g \in GuildArgs : topusers(g)
    \/ \E g \in GuildArgs, a \in UserIds : mytopreactions(g, a)
    \/ \E g \in GuildArgs, e \in EmojiArgs : topemojiusers(g, e)
    \/ \E g \in GuildArgs : servertopreactions(g)
    \/ \E g \in GuildArgs, t \in UserIds : usertopreceived(g, t)
    \/ \E g \in GuildArgs, e \in EmojiArgs \cup {""} : topmessages(g, e)

Spec == Init /\ [][Next]_vars

(***************************************************************************)
(* Properties.                                                             *)
(***************************************************************************)
Rows == {reaction_events[i] : i \in 1..Len(reaction_events)}

\* C1 (referential completeness): in every reachable state, whatever live
\* handling and backfill did before and wherever a call raised, every row of
\* reaction_events has its reactor_user_id and its message_author_id in users
\* and its message_id in messages.
C1_ReferentialCompleteness ==
    \A i \in 1..Len(reaction_events) :
        /\ reaction_events[i].reactor_user_id \in DOMAIN users
        /\ reaction_events[i].message_author_id \in DOMAIN users
        /\ reaction_events[i].message_id \in DOMAIN messages

\* C1 witness: a call has raised part-way (its user rows are written, its
\* message row is not) in a store that holds events.
C1_Witness ==
    /\ outcome = "AttributeError"
    /\ reaction_events # <<>>
    /\ 4 \notin DOMAIN messages
    /\ 3 \in DOMAIN users

\* the rows of the ledger are all of one (reactor, message, emoji)
OneTriple ==
    /\ reaction_events # <<>>
    /\ \A i \in 1..Len(reaction_events) :
        /\ reaction_events[i].reactor_user_id = reaction_events[1].reactor_user_id
        /\ reaction_events[i].message_id = reaction_events[1].message_id
        /\ reaction_events[i].emoji_name = reaction_events[1].emoji_name
        /\ reaction_events[i].emoji_id = reaction_events[1].emoji_id

Adds == Cardinality({i \in 1..Len(reaction_events) : reaction_events[i].event_type = "add"})
Removes == Cardinality({i \in 1..Len(reaction_events) : reaction_events[i].event_type = "remove"})

\* the result holds one row, for group k, with net count n
OnlyGroup(results, k, n) ==
    \A r \in results : Cardinality(r) = 1 /\ \A row \in r : row.key = k /\ row.net = n

\* C2 (net-count correctness): when the ledger holds N 'add' and M 'remove'
\* rows of one (reactor, message, emoji) of a guild and nothing else, each of
\* the six queries whose filter matches them returns that one group with net
\* count N - M, in whatever order the rows were appended.
C2_NetCount ==
    OneTriple =>
        LET row == reaction_events[1]
            g == row.guild_id
            n == Adds - Removes
        IN /\ OnlyGroup(topreactionsreceived(Db, g), row.message_author_id, n)
           /\ OnlyGroup(myusedreactions(Db, g, row.reactor_user_id), row.emoji_name, n)
           /\ OnlyGroup(top_emoji_users(Db, g, row.emoji_name), row.message_author_id, n)
           /\ OnlyGroup(server_top_reactions(Db, g), row.emoji_name, n)
           /\ OnlyGroup(user_top_received(Db, g, row.message_author_id), row.emoji_name, n)
           /\ OnlyGroup(top_messages(Db, g, ""), row.message_id, n)
           /\ OnlyGroup(top_messages(Db, g, row.emoji_name), row.message_id, n)

\* C2 witness: one 'add' and one 'remove' of the same triple, netting 0.
C2_Witness ==
    /\ OneTriple
    /\ Adds = 1
    /\ Removes = 1
    /\ OnlyGroup(topreactionsreceived(Db, reaction_events[1].guild_id),
                 reaction_events[1].message_author_id, 0)

\* db without the events recorded for messages of guild a
WithoutGuild(db, a) ==
    [db EXCEPT !.events = SelectSeq(db.events, LAMBDA row : Message(row.message_id).guild # a)]

\* the six queries, for guild g, with every argument
AllQueries(db, g) ==
    <<topreactionsreceived(db, g),
      [u \in UserIds |-> myusedreactions(db, g, u)],
      [n \in EmojiArgs |-> top_emoji_users(db, g, n)],
      server_top_reactions(db, g),
      [u \in UserIds |-> user_top_received(db, g, u)],
      [n \in EmojiArgs \cup {""} |-> top_messages(db, g, n)]>>

\* C3 (community isolation): for distinct guilds a and b, the events recorded
\* for messages of a contribute nothing to any of the six queries scoped to
\* b: with those events taken out of the ledger every result for b, rows and
\* net counts, is the same.
C3_Isolation ==
    \A a \in {1, 2}, b \in {1, 2} :
        a # b => AllQueries(Db, b) = AllQueries(WithoutGuild(Db, a), b)

\* C3 witness: both guilds have events, and guild 2's leaderboard has a row.
C3_Witness ==
    /\ \E row \in Rows : Message(row.message_id).guild = 1
    /\ \E row \in Rows : Message(row.message_id).guild = 2
    /\ \E r \in topreactionsreceived(Db, 2) : r # {}

IsPrefix(s, t) == Len(s) <= Len(t) /\ \A i \in 1..Len(s) : t[i] = s[i]

LiveStep ==
    \E t \in Reactable : on_reaction_add(t[1], t[2], t[3]) \/ on_reaction_remove(t[1], t[2], t[3])

\* what one call of record_reaction_event on the present store leaves of the
\* ledger: the ledger itself, or the ledger with one row after it
AppendsAtMostOne(r) ==
    \/ r.db.events = reaction_events
    \/ /\ Len(r.db.events) = Len(reaction_events) + 1
       /\ IsPrefix(reaction_events, r.db.events)

\* C4 (append-only ledger): no step of a live handler, of on_ready or
\* backfill, or of a slash command changes or deletes a row of
\* reaction_events; a step only appends rows after the existing ones (ids
\* greater than every existing id), and one call of record_reaction_event,
\* from a live handler or from backfill, appends at most one.
C4_AppendOnly ==
    /\ [][/\ IsPrefix(reaction_events, reaction_events')
          /\ LiveStep => Len(reaction_events') <= Len(reaction_events) + 1]_vars
    /\ [](\A t \in Reactable, k \in {"add", "remove"} :
            \A r \in {record_reaction_event(Db, t[1], t[2], t[3], k)} : AppendsAtMostOne(r))

\* C4 witness: rows have been appended to a ledger that already held rows.
C4_Witness ==
    /\ Len(reaction_events) >= 2
    /\ outcome = "recorded"

\* C6: in every reachable state the guild_id of a reaction_events row equals
\* the guild_id of the messages row of its message_id, on the live and the
\* backfill path, also for a message recorded more than once.
C6_GuildIdAgrees ==
    \A i \in 1..Len(reaction_events) :
        /\ reaction_events[i].message_id \in DOMAIN messages
        /\ messages[reaction_events[i].message_id].guild_id = reaction_events[i].guild_id

\* C6 witness: one message recorded by backfill ('add' twice) and by a live
\* handler.
C6_Witness ==
    \E i, j \in 1..Len(reaction_events) :
        /\ i < j
        /\ reaction_events[i].message_id = reaction_events[j].message_id
        /\ outcome = "recorded"
        /\ bf.phase = "done"

\* C5 (record is one unit of work): the user upserts, the message upsert and
\* the event append of a record call are applied together or not at all: a
\* step that appends no event row leaves no user or message write behind.
C5_RecordAtomic ==
    [][reaction_events' = reaction_events => (users' = users /\ messages' = messages)]_vars

\* C7 (no community context is a validation skip): a reaction notification
\* whose message has no guild is dropped with no error leaving the handler
\* and with no reaction_events row appended.
C7_NoGuildSkipped ==
    [][\A t \in Reactable :
         (/\ on_reaction_add(t[1], t[2], t[3]) \/ on_reaction_remove(t[1], t[2], t[3])
          /\ tables
          /\ Message(t[2]).guild = None)
         => (/\ outcome' \notin {"AttributeError", "OperationalError"}
             /\ reaction_events' = reaction_events)]_vars

\* C8 (a dropped event leaves the store unchanged): when a reaction
\* notification is rejected because its message has no guild or no author,
\* users, messages and reaction_events are as they were before it arrived.
C8_DroppedLeavesStore ==
    [][\A t \in Reactable :
         (/\ on_reaction_add(t[1], t[2], t[3]) \/ on_reaction_remove(t[1], t[2], t[3])
          /\ tables
          /\ Message(t[2]).guild = None \/ Message(t[2]).author = None)
         => UNCHANGED <<users, messages, reaction_events>>]_vars

\* C9 (record with a null reactor or author is a no-op): when backfill asks
\* record_reaction_event to record reactions of a message whose author is
\* None, no failure is raised (the channel's walk goes on) and no row of any
\* table changes.
C9_NullAuthorNoOp ==
    [][(/\ BackfillReaction(FALSE)
        /\ Message(Head(bf.todo)[1]).author = None)
       => (/\ UNCHANGED <<users, messages, reaction_events>>
           /\ outcome' # "channel_error")]_vars

(***************************************************************************)
(* Backfill under the scheduling of the event loop: a fetch that was       *)
(* awaited completes or raises, and the coroutine is resumed.              *)
(***************************************************************************)
Backfill == \E fails \in BOOLEAN : BackfillHistory(fails) \/ BackfillReaction(fails)

FairSpec == Spec /\ WF_vars(Backfill)

AllTextChannels ==
    {TextChannels(Guilds[i])[j] : <<i, j>> \in
        {<<i, j>> \in (1..Len(Guilds)) \X (1..2) : j <= Len(TextChannels(Guilds[i]))}}

\* the channel's except clause has run in this step
ChannelFailed == bf'.failed # bf.failed /\ bf'.failed # {}

\* C10 (backfill survives a channel's failure): when the walk of a channel
\* raises (history fetch, user fetch or a record call), every row written
\* before stays in the store and the walk goes on with the next channel; a
\* started backfill ends, and ends only after every text channel of every
\* guild was attempted.
C10_BackfillSurvives ==
    /\ [][ChannelFailed =>
            /\ IsPrefix(reaction_events, reaction_events')
            /\ \A u \in DOMAIN users : u \in DOMAIN users' /\ users'[u] = users[u]
            /\ \A m \in DOMAIN messages : m \in DOMAIN messages' /\ messages'[m] = messages[m]
            /\ bf'.phase = NextChannel(bf).phase
            /\ bf'.gi = NextChannel(bf).gi
            /\ bf'.ci = NextChannel(bf).ci
            /\ bf.phase = "walking"]_vars
    /\ [](bf.phase = "done" => bf.attempted = AllTextChannels)
    /\ (bf.phase = "walking") ~> (bf.phase = "done")

\* C10 witness: backfill is done; channel 1 failed in a record call (for the
\* message without author) after the reaction of message 1 was recorded, and
\* channels 2 and 3 were walked after it.
C10_Witness ==
    /\ bf.phase = "done"
    /\ bf.failed = {1}
    /\ bf.attempted = {1, 2, 3}
    /\ Len(reaction_events) = 1
    /\ reaction_events[1].message_id = 1
    /\ reaction_events[1].reactor_user_id = 2
    /\ 3 \in DOMAIN users

(***************************************************************************)
(* The bot started over a platform that already holds reactions: nothing   *)
(* is delivered but READY, so the store is written by backfill alone and   *)
(* the platform state does not change.                                     *)
(***************************************************************************)
\* the reactions that may be on the platform when the bot starts
Preexisting ==
    {<<2, 1, Fire>>, <<3, 1, Pog11>>, <<4, 1, Fire>>, <<3, 2, Fire>>, <<2, 3, Fire>>,
     <<3, 4, Fire>>, <<3, 5, Fire>>}

BackfillInit ==
    /\ tables = FALSE
    /\ users = << >>
    /\ messages = << >>
    /\ reaction_events = << >>
    /\ reactions \in SUBSET Preexisting
    /\ bf = Idle
    /\ outcome = "none"
    /\ nDispatch = 0

BackfillOnly ==
    \/ on_ready
    \/ \E fails \in BOOLEAN : BackfillHistory(fails)
    \/ \E fails \in BOOLEAN : BackfillReaction(fails)

BackfillSpec == BackfillInit /\ [][BackfillOnly]_vars

\* the messages that channel.history yields for some text channel of some guild
TextChannelMessages ==
    {m \in MessageIds : \E c \in AllTextChannels : \E i \in 1..Len(History(c)) : History(c)[i] = m}

\* the reactions of non-bot users on messages of text channels
Visible == {t \in reactions : ~User(t[1]).bot /\ t[2] \in TextChannelMessages}

\* the ids of the rows of one (reactor, message, emoji) with one event_type
TripleRows(t, event_type) ==
    {i \in 1..Len(reaction_events) :
        /\ reaction_events[i].reactor_user_id = t[1]
        /\ reaction_events[i].message_id = t[2]
        /\ reaction_events[i].emoji_name = EmojiName(t[3])
        /\ reaction_events[i].emoji_id = EmojiId(t[3])
        /\ reaction_events[i].event_type = event_type}

TripleNet(t) == Cardinality(TripleRows(t, "add")) - Cardinality(TripleRows(t, "remove"))

UserObjects ==
    [id : {2, 3}, name : {"ann", "nan"}, discriminator : {"0", "7"}, bot : {FALSE}]

MessageObjects == [id : {1, 2}, channel_id : {1, 2}, guild : {1, 2}, author : {2, 3}]

UserRow(u) == [username |-> u.name, discriminator |-> u.discriminator]

MessageRow(msg) == [channel_id |-> msg.channel_id, guild_id |-> msg.guild, author_id |-> msg.author]

\* update_user_in_db(u); outcome tells whether a row was there and whether it changed
UpsertUser(u) ==
    /\ users' = UpsertedUsers(users, u)
    /\ outcome' = IF u.id \notin DOMAIN users THEN "user_inserted"
                  ELSE IF users[u.id] # UserRow(u) THEN "user_updated"
                  ELSE "user_unchanged"
    /\ UNCHANGED <<tables, messages, reaction_events, reactions, bf, nDispatch>>

\* update_message_in_db(msg); outcome tells whether a row was there and
\* whether the object carried other values than the row
UpsertMessage(msg) ==
    /\ messages' = InsertOrIgnoreMessage(messages, msg)
    /\ outcome' = IF msg.id \notin DOMAIN messages THEN "message_inserted"
                  ELSE IF messages[msg.id] # MessageRow(msg) THEN "message_ignored"
                  ELSE "message_unchanged"
    /\ UNCHANGED <<tables, users, reaction_events, reactions, bf, nDispatch>>

UpsertInit ==
    /\ tables = TRUE
    /\ users = << >>
    /\ messages = << >>
    /\ reaction_events = << >>
    /\ reactions = {}
    /\ bf = Idle
    /\ outcome = "none"
    /\ nDispatch = 0

UpsertNext ==
    \/ \E u \in UserObjects : UpsertUser(u)
    \/ \E msg \in MessageObjects : UpsertMessage(msg)

UpsertSpec == UpsertInit /\ [][UpsertNext]_vars

\* C12 (user upsert is idempotent and last-write-wins): an upsert of user u
\* leaves users with the row of u.id carrying u's name and discriminator,
\* whatever the row held before, and every other row as it was (so after any
\* sequence of upserts the row carries the values of the most recent one);
\* upserting the same object twice gives what upserting it once gives; a
\* message upsert changes no users row.
C12_UserLastWriteWins ==
    /\ [][/\ \A u \in UserObjects :
               UpsertUser(u) =>
                 /\ DOMAIN users' = DOMAIN users \cup {u.id}
                 /\ users'[u.id] = UserRow(u)
                 /\ \A x \in DOMAIN users \ {u.id} : users'[x] = users[x]
          /\ (\E msg \in MessageObjects : UpsertMessage(msg)) => users' = users]_vars
    /\ [](\A u \in UserObjects :
            UpsertedUsers(UpsertedUsers(users, u), u) = UpsertedUsers(users, u))

\* C12 witness: an upsert has replaced the name of user 2, whose row was
\* there, while user 3 has a row.
C12_Witness ==
    /\ outcome = "user_updated"
    /\ 2 \in DOMAIN users
    /\ users[2].username = "nan"
    /\ 3 \in DOMAIN users

C14_NoBotAuthorBackfilled ==
    \A i \in 1..Len(reaction_events) : ~User(reaction_events[i].message_author_id).bot

\* the emoji keys (emoji_name with emoji_id) of the events of guild g
EmojiKeys(g) ==
    {<<reaction_events[i].emoji_name, reaction_events[i].emoji_id>> :
        i \in {j \in 1..Len(reaction_events) : reaction_events[j].guild_id = g}}

\* C15 (aggregation groups by the full emoji key): /servertopreactions
\* returns one group for each emoji key (name and id) that the events of the
\* guild carry, so events whose keys differ are counted apart.  The SELECT
\* groups by emoji_name alone, so this fails for two custom emojis of one
\* name.
C15_GroupsByEmojiKey ==
    \A g \in {1, 2} :
        \A S \in server_top_reactions(Db, g) : Cardinality(S) = Cardinality(EmojiKeys(g))

(***************************************************************************)
(* The slash commands on a store with about as many groups as the LIMIT:   *)
(* user 2 has reacted in guild 1 to message k of user k with emoji k, for  *)
(* k up to n; the first or the last hi of these reactions are in the       *)
(* ledger twice (net count 2), the others once.                            *)
(***************************************************************************)
MaxGroups == 11

EmojiNames ==
    <<"e01", "e02", "e03", "e04", "e05", "e06", "e07", "e08", "e09", "e10", "e11", "e12", "e13">>

GroupRow(k) ==
    [reactor_user_id |-> 2, message_id |-> k, message_author_id |-> k,
     emoji_name |-> EmojiNames[k], emoji_id |-> None, event_type |-> "add", guild_id |-> 1]

DrawnLedger(n, hi, first) ==
    [i \in 1..(n + hi) |->
        GroupRow(IF i <= n THEN i ELSE IF first THEN i - n ELSE 2 * n - i + 1)]

LeaderboardInit ==
    /\ tables = TRUE
    /\ \E n \in (Limit - 1)..MaxGroups :
         /\ users = [k \in 1..n |-> [username |-> "user", discriminator |-> "0"]]
         /\ messages = [k \in 1..n |-> [channel_id |-> 1, guild_id |-> 1, author_id |-> k]]
         /\ \E hi \in 0..n, first \in BOOLEAN : reaction_events = DrawnLedger(n, hi, first)
    /\ reactions = {}
    /\ bf = Idle
    /\ outcome = "none"
    /\ nDispatch = 0

LeaderboardNext ==
    \/ \E g \in GuildArgs : topusers(g)
    \/ \E g \in GuildArgs, a \in UserIds : mytopreactions(g, a)
    \/ \E g \in GuildArgs, e \in EmojiArgs \cup {"e01"} : topemojiusers(g, e)
    \/ \E g \in GuildArgs : servertopreactions(g)
    \/ \E g \in GuildArgs, t \in UserIds : usertopreceived(g, t)
    \/ \E g \in GuildArgs, e \in EmojiArgs \cup {"", "e01"} : topmessages(g, e)

LeaderboardSpec == LeaderboardInit /\ [][LeaderboardNext]_vars

\* the rows of S read one after the other
NonIncreasing(seq) == \A i \in 1..Len(seq), j \in 1..Len(seq) : i < j => seq[i].net >= seq[j].net

\* results: what a query may return; groups: its groups before ORDER BY and LIMIT
TopTen(results, groups) ==
    \A S \in results :
        LET seq == OrderByNetDesc(S)
        IN /\ Len(seq) <= 10
           /\ Len(seq) = Cardinality(S)
           /\ NonIncreasing(seq)
           /\ \A i \in 1..Len(seq) : seq[i] \in groups
           /\ \A b \in groups : (\A i \in 1..Len(seq) : seq[i] # b) =>
                                   \A i \in 1..Len(seq) : b.net <= seq[i].net
           /\ (Cardinality(groups) >= 10 => Len(seq) = 10)

\* C16 (top ten, ordered): each of the six queries returns at most 10 rows,
\* in non-increasing order of net count, all of them groups of the query,
\* and no group left out has a net count greater than that of a row
\* returned; with 10 groups or more it returns 10 rows.
C16_TopTenOrdered ==
    \A g \in {1, 2} :
        /\ TopTen(topreactionsreceived(Db, g), ReceivedByUser(Db, InGuild(Db, g)))
        /\ TopTen(myusedreactions(Db, g, 2),
                  ByEmojiName(Db, {i \in InGuild(Db, g) : reaction_events[i].reactor_user_id = 2}))
        /\ TopTen(top_emoji_users(Db, g, "e01"),
                  ReceivedByUser(Db, {i \in InGuild(Db, g) : reaction_events[i].emoji_name = "e01"}))
        /\ TopTen(server_top_reactions(Db, g), ByEmojiName(Db, InGuild(Db, g)))
        /\ TopTen(user_top_received(Db, g, 1),
                  ByEmojiName(Db, {i \in InGuild(Db, g) : reaction_events[i].message_author_id = 1}))
        /\ TopTen(top_messages(Db, g, ""), ByMessage(Db, InGuild(Db, g)))
        /\ TopTen(top_messages(Db, g, "e01"),
                  ByMessage(Db, {i \in InGuild(Db, g) : reaction_events[i].emoji_name = "e01"}))

\* C16 witness: a command has replied with an embed on a ledger of 11 groups,
\* three of them with net count 2: one group of net count 1 is left out.
C16_Witness ==
    /\ outcome = "embed"
    /\ Len(reaction_events) = 14
    /\ Cardinality(ByEmojiName(Db, InGuild(Db, 1))) = 11
    /\ \A S \in server_top_reactions(Db, 1) :
         Cardinality(S) = 10 /\ Cardinality({r \in S : r.net = 2}) = 3

\* the group keys of a result: every set of rows the query may return has them
HasKeys(results, keys) == \A S \in results : {r.key : r \in S} = keys

\* the ids of the events of guild g
GuildEvents(g) == {i \in 1..Len(reaction_events) : reaction_events[i].guild_id = g}

RECURSIVE AddRows(_, _, _)
AddRows(us, m, e) ==
    IF us = <<>> THEN <<>>
    ELSE IF User(Head(us)).bot THEN AddRows(Tail(us), m, e)
    ELSE <<EventRow(Head(us), Message(m), e, "add")>> \o AddRows(Tail(us), m, e)

\* the rows that the step appended
Appended == SubSeq(reaction_events', Len(reaction_events) + 1, Len(reaction_events'))

\* C18 (no reordering or coalescing): a live add or remove whose record call
\* returned appends the one row of that event after every existing row; a
\* backfill step appends, after every existing row, one 'add' row for each
\* user whose record call returned, in the order of the calls (all of the
\* reaction's non-bot users when none raised); every other step leaves the
\* ledger as it is.  Rows are appended when their event is handled and never
\* move, so the id order of the events of a (reactor, message, emoji) is the
\* order of handling, also when live events fall between backfill steps.
C18_OneRowInOrder ==
    [][/\ IsPrefix(reaction_events, reaction_events')
       /\ \A t \in Reactable :
            /\ (on_reaction_add(t[1], t[2], t[3]) /\ outcome' = "recorded") =>
                 Appended = <<EventRow(t[1], Message(t[2]), t[3], "add")>>
            /\ (on_reaction_remove(t[1], t[2], t[3]) /\ outcome' = "recorded") =>
                 Appended = <<EventRow(t[1], Message(t[2]), t[3], "remove")>>
       /\ (LiveStep /\ outcome' # "recorded") => Appended = <<>>
       /\ (\E fails \in BOOLEAN : BackfillReaction(fails)) =>
            LET m == Head(bf.todo)[1]
                e == Head(bf.todo)[2]
                rows == AddRows(Ascending({u \in UserIds : <<u, m, e>> \in reactions}), m, e)
            IN IF outcome' = "channel_error" THEN IsPrefix(Appended, rows)
               ELSE Appended = rows
       /\ (on_ready \/ \E fails \in BOOLEAN : BackfillHistory(fails)) => Appended = <<>>
       /\ nDispatch' = nDispatch + 1 /\ ~LiveStep => Appended = <<>>]_vars

\* C18 witness: in the first backfill run, a live add of user 2 on message 1
\* was recorded and backfill recorded the same reaction: two 'add' rows of
\* the one triple, in the order of handling.
C18_Witness ==
    /\ bf.run = 1
    /\ outcome \in {"backfilled", "channel_finished"}
    /\ Len(reaction_events) = 2
    /\ \A i \in 1..2 :
         reaction_events[i] = EventRow(2, Message(1), Fire, "add")

\* C19 (backfill concurrent with live ingestion keeps counts consistent):
\* when the first backfill run, started on an empty ledger, has ended
\* without a channel failure, with live adds and removes handled before,
\* between and after its steps, the net count of every (non-bot reactor,
\* message, emoji) on a message of a text channel that has an author is 1
\* if the user has that reaction on the message and 0 otherwise.  Backfill
\* records a reaction whether or not a live add already did, and a removal
\* of a reaction not yet recorded leaves a 'remove' without an 'add', so
\* this fails.
C19_CountsMatchPlatform ==
    (bf.phase = "done" /\ bf.run = 1 /\ bf.clean) =>
        \A t \in Reactable :
            (/\ ~User(t[1]).bot
             /\ t[2] \in TextChannelMessages
             /\ Message(t[2]).author # None) =>
                TripleNet(t) = IF t \in reactions THEN 1 ELSE 0

\* C20 (backfill on an empty ledger reconstructs the visible state): when
\* the first backfill run, with no live event and no channel failure, has
\* ended, the ledger holds one 'add' row for each reaction that a non-bot
\* user has on a message of a text channel of a guild, carrying that
\* message's author and guild, and no other row: none of a bot reactor, none
\* of a message outside the text channels, no 'remove'.
C20_BackfillReconstructs ==
    (bf.phase = "done" /\ bf.run = 1 /\ bf.failed = {}) =>
        /\ \A t \in Visible : Cardinality(TripleRows(t, "add")) = 1
        /\ Len(reaction_events) = Cardinality(Visible)
        /\ \A i \in 1..Len(reaction_events) :
             \E t \in Visible : reaction_events[i] = EventRow(t[1], Message(t[2]), t[3], "add")

\* C20 witness: the run has ended without failure on a platform holding the
\* reactions of two non-bot users in both guilds, one of a bot and one in a
\* direct message; the ledger holds the four rows of the non-bot users'
\* reactions in text channels.
C20_Witness ==
    /\ bf.phase = "done"
    /\ bf.run = 1
    /\ bf.failed = {}
    /\ reactions = Preexisting \ {<<3, 5, Fire>>}
    /\ Len(reaction_events) = 4

\* C21 as stated (reactions of bot accounts are never recorded): no row of
\* reaction_events has a bot account as reactor_user_id.  The live handlers
\* compare the reactor with bot.user only, so a live reaction of another
\* bot account is recorded and this fails.
C21_NoBotReactor ==
    \A i \in 1..Len(reaction_events) : ~User(reaction_events[i].reactor_user_id).bot

\* C21 (reactions of bot accounts), amended: on_reaction_add and
\* on_reaction_remove leave the store unchanged when the reactor is the
\* bot's own identity; no row that a backfill step appends has a bot account
\* as reactor_user_id; and so no row of reaction_events has the bot's own
\* identity as reactor_user_id.
C21_OwnIdentityAndBackfill ==
    /\ [][/\ \A t \in Reactable :
               (/\ t[1] = BotUser
                /\ on_reaction_add(t[1], t[2], t[3]) \/ on_reaction_remove(t[1], t[2], t[3]))
                  => /\ UNCHANGED store
                     /\ outcome' = "ignored"
          /\ (\E fails \in BOOLEAN : BackfillReaction(fails)) =>
               \A i \in 1..Len(Appended) : ~User(Appended[i].reactor_user_id).bot]_vars
    /\ [](\A i \in 1..Len(reaction_events) : reaction_events[i].reactor_user_id # BotUser)

\* C21 witness: the bot account 4 and user 2 have 'fire' on message 1, and
\* backfill has walked the reaction: the ledger holds the row of user 2 and
\* none of account 4.
C21_Witness ==
    /\ {<<4, 1, Fire>>, <<2, 1, Fire>>} \subseteq reactions
    /\ outcome \in {"backfilled", "channel_finished"}
    /\ bf.clean
    /\ reaction_events = <<EventRow(2, Message(1), Fire, "add")>>

====
